---- MODULE Spec2Model ----
(***************************************************************************)
(* Signal generation of the crypto API (src/api/app.py) and of the         *)
(* commodities API (src/api/commodities.py): latest-snapshot selection,    *)
(* confidence scoring, Buy/Sell/Hold classification, risk bands, and the   *)
(* file lifecycle of the two HTTP handlers compute-signals and signal.     *)
(*                                                                         *)
(* Numbers.  A Python float is modelled on a fixed-point grid of           *)
(* thousandths: the integer n stands for n/1000, so Close = 100.0 is       *)
(* 100000 and a confidence of 0.88 is 880.  A float cell is a record       *)
(* [k, v]: k = "num" with the grid value v, k = "nan" for NaN (an empty    *)
(* CSV cell), k = "absent" for a key the row does not have (a column the   *)
(* file does not have).  NaN propagates through arithmetic and makes       *)
(* every comparison false, as IEEE 754 does.  eps = 1e-9 is below the      *)
(* resolution of the grid: x + eps is x for every grid value x, and        *)
(* max(y, eps) is y for every positive grid value y.                       *)
(*                                                                         *)
(* Strings are TLA+ strings; characters are one-character substrings.      *)
(***************************************************************************)
EXTENDS Integers, Sequences, FiniteSets, TLC

\* 1.0 on the fixed-point grid (thousandths).
One == 10 * 10 * 10

\* ------------------------------------------------------------------ bounds
\* Rows of a snapshot table handed to the engine (SpecEngine).
MaxRows == 2
\* Dates are the integers 1..MaxDate (ISO dates, which sort as they read).
MaxDate == 2
\* Rows of the indicators file in the API lifecycle (Spec).
MaxFileRows == 2

\* ------------------------------------------------------------------ floats
Num(n) == [k |-> "num", v |-> n]
NaN == [k |-> "nan", v |-> 0]
Absent == [k |-> "absent", v |-> 0]

IsNum(x) == x.k = "num"
isna(x) == x.k = "nan"

Abs(n) == IF n < 0 THEN -n ELSE n
Sgn(n) == IF n < 0 THEN -1 ELSE 1
Min2(a, b) == IF a < b THEN a ELSE b
Max2(a, b) == IF a > b THEN a ELSE b

\* IEEE arithmetic on cells: NaN in, NaN out.
Add(a, b) == IF IsNum(a) /\ IsNum(b) THEN Num(a.v + b.v) ELSE NaN
Sub(a, b) == IF IsNum(a) /\ IsNum(b) THEN Num(a.v - b.v) ELSE NaN
\* k * a for an integer literal k (2 * atr_val, 3 * atr_val).
Times(k, a) == IF IsNum(a) THEN Num(k * a.v) ELSE NaN
FAbs(a) == IF IsNum(a) THEN Num(Abs(a.v)) ELSE NaN
\* IEEE comparisons: false as soon as one side is NaN.
Gt(a, b) == IsNum(a) /\ IsNum(b) /\ a.v > b.v
Lt(a, b) == IsNum(a) /\ IsNum(b) /\ a.v < b.v

\* Where the logistic function is 1.0 (resp. 0.0) on the grid: 1/(1+e^-x)
\* rounds to 1.000 from x = 8 on.  Quotients are cut there, which the
\* sigmoid that consumes them cannot tell.
SatX == 40 * One

\* The quotient a / b of two grid values, b # 0, as a grid value, truncated
\* toward zero and cut to [-SatX, SatX].
QuotInt(a, b) ==
    LET ip == Abs(a) \div Abs(b)
        fr == ((Abs(a) % Abs(b)) * One) \div Abs(b)
        m  == IF ip >= SatX \div One THEN SatX ELSE ip * One + fr
    IN Sgn(a) * Sgn(b) * m

\* Python's round(x, 2) on the grid: to the nearest hundredth, an exact tie
\* to the even hundredth; round(nan, 2) is nan.
RoundInt2(n) ==
    LET a == Abs(n)
        q == a \div 10
        r == a % 10
        up == (r > 5) \/ (r = 5 /\ q % 2 = 1)
    IN Sgn(n) * 10 * (IF up THEN q + 1 ELSE q)
round2(x) == IF IsNum(x) THEN Num(RoundInt2(x.v)) ELSE NaN

\* ------------------------------------------------------------------ helpers
\* 1/(1+e^-x) at x = 0, 0.5, 1, 1.5, 2, 3, 4, 5, 6, 8, in thousandths; linear
\* between the points, 1.0 from 8 on (np.exp overflows to inf for a very
\* negative x and the result is 0.0), and sigmoid(-x) = 1 - sigmoid(x).
SigTable ==
    << <<0, 500>>, <<500, 622>>, <<1000, 731>>, <<1500, 818>>, <<2000, 881>>,
       <<3000, 953>>, <<4000, 982>>, <<5000, 993>>, <<6000, 998>>, <<8000, 1000>> >>
SigPos(x) ==
    IF x >= 8000 THEN One
    ELSE LET i == CHOOSE j \in 1..(Len(SigTable) - 1) :
                      SigTable[j][1] <= x /\ x < SigTable[j + 1][1]
             x0 == SigTable[i][1]
             y0 == SigTable[i][2]
             x1 == SigTable[i + 1][1]
             y1 == SigTable[i + 1][2]
         IN y0 + ((y1 - y0) * (x - x0)) \div (x1 - x0)
sigmoid(x) ==
    IF ~IsNum(x) THEN NaN
    ELSE IF x.v >= 0 THEN Num(SigPos(x.v)) ELSE Num(One - SigPos(-x.v))

\* app.py: float(np.minimum(np.maximum(x, 0.0), 1.0)); both propagate NaN.
clamp01(x) == IF IsNum(x) THEN Num(Min2(Max2(x.v, 0), One)) ELSE NaN
\* commodities.py: float(np.clip(x, 0.0, 1.0)); np.clip propagates NaN.
com_clamp01(x) == IF IsNum(x) THEN Num(Max2(0, Min2(x.v, One))) ELSE NaN

\* row.get(key, default): the default only when the row has no such key.
RowGet(row, key, default) == IF row[key].k = "absent" THEN default ELSE row[key]
\* Python's `x or default`: x when x is truthy.  0.0 is falsy; NaN is truthy.
OrDefault(x, default) == IF IsNum(x) /\ x.v = 0 THEN default ELSE x
\* float(row.get(key, default) or default)
safe_val(row, key, default) == OrDefault(RowGet(row, key, default), default)

\* a / b on cells; b is never 0 where the code divides (a 0 denominator
\* operand has become NaN in safe_val, and eps is added to the rest).
Div(a, b) == IF IsNum(a) /\ IsNum(b) /\ b.v # 0 THEN Num(QuotInt(a.v, b.v)) ELSE NaN

\* The weighted sum and the remap 0.50 + 0.50 * conf of four cells.
Weighted(t, m, r, v) ==
    IF IsNum(t) /\ IsNum(m) /\ IsNum(r) /\ IsNum(v)
    THEN Num((One \div 2) + ((45 * t.v + 25 * m.v + 20 * r.v + 10 * v.v) \div 100) \div 2)
    ELSE NaN

\* 1.0 - abs(rsi - 50.0) / 60.0
RsiScore(rsi) == IF IsNum(rsi) THEN Num(One - Abs(rsi.v - 50 * One) \div 60) ELSE NaN

\* -------------------------------------------------------------- crypto module
compute_confidence(row) ==
    LET close == safe_val(row, "Close", NaN)
        ema20 == safe_val(row, "EMA_20", NaN)
        macd  == safe_val(row, "MACD", Num(0))
        rsi   == safe_val(row, "RSI_14", Num(50 * One))
        vol_ratio == safe_val(row, "Vol_Ratio", Num(One))
        trend_score ==
            IF isna(close) \/ isna(ema20) THEN Num(One \div 2)
            ELSE clamp01(sigmoid(Times(8, Div(Sub(close, ema20), ema20))))
        \* macd / (abs(close) * 0.0005 + eps)
        macd_score == clamp01(sigmoid(Div(Times(2000, macd), FAbs(close))))
        rsi_score == clamp01(RsiScore(rsi))
        vol_score == clamp01(sigmoid(vol_ratio))
    IN clamp01(Weighted(trend_score, macd_score, rsi_score, vol_score))

decide_signal(row) ==
    LET close == RowGet(row, "Close", NaN)
        ema20 == RowGet(row, "EMA_20", NaN)
        macd  == RowGet(row, "MACD", NaN)
        rsi   == RowGet(row, "RSI_14", NaN)
    IN IF isna(close) \/ isna(ema20) \/ isna(macd) \/ isna(rsi) THEN "Hold"
       ELSE IF Gt(close, ema20) /\ Gt(macd, Num(0)) /\ Lt(rsi, Num(70 * One)) THEN "Buy"
       ELSE IF Lt(close, ema20) /\ Lt(macd, Num(0)) /\ Gt(rsi, Num(30 * One)) THEN "Sell"
       ELSE "Hold"

\* --------------------------------------------------------- commodities module
com_compute_confidence(row) ==
    LET close == safe_val(row, "Close", NaN)
        ema20 == safe_val(row, "EMA_20", NaN)
        macd  == safe_val(row, "MACD", Num(0))
        rsi   == safe_val(row, "RSI_14", Num(50 * One))
        vol_ratio == safe_val(row, "Vol_Ratio", Num(One))
        trend_score ==
            IF isna(close) \/ isna(ema20) THEN Num(One \div 2)
            ELSE com_clamp01(sigmoid(Times(8, Div(Sub(close, ema20), ema20))))
        macd_score == com_clamp01(sigmoid(Div(Times(2000, macd), FAbs(close))))
        rsi_score == com_clamp01(RsiScore(rsi))
        vol_score == com_clamp01(sigmoid(vol_ratio))
    IN com_clamp01(Weighted(trend_score, macd_score, rsi_score, vol_score))

com_decide_signal(row) ==
    LET close == safe_val(row, "Close", NaN)
        ema20 == safe_val(row, "EMA_20", NaN)
        macd  == safe_val(row, "MACD", NaN)
        rsi   == safe_val(row, "RSI_14", NaN)
    IN IF isna(close) \/ isna(ema20) \/ isna(macd) \/ isna(rsi) THEN "Hold"
       ELSE IF Gt(close, ema20) /\ Gt(macd, Num(0)) /\ Lt(rsi, Num(70 * One)) THEN "Buy"
       ELSE IF Lt(close, ema20) /\ Lt(macd, Num(0)) /\ Gt(rsi, Num(30 * One)) THEN "Sell"
       ELSE "Hold"

\* ------------------------------------------------------------------ strings
Chr(s, i) == SubSeq(s, i, i)
\* The characters tickers are made of, in code-point order.
Ascii == " -0123456789=ABCDEFGHIJKLMNOPQRSTUVWXYZabcdefghijklmnopqrstuvwxyz"
Ord(c) == CHOOSE i \in 1..Len(Ascii) : Chr(Ascii, i) = c
LowerAlpha == "abcdefghijklmnopqrstuvwxyz"
UpperAlpha == "ABCDEFGHIJKLMNOPQRSTUVWXYZ"
UpperChr(c) ==
    IF \E i \in 1..Len(LowerAlpha) : Chr(LowerAlpha, i) = c
    THEN Chr(UpperAlpha, CHOOSE i \in 1..Len(LowerAlpha) : Chr(LowerAlpha, i) = c)
    ELSE c

\* str.upper()
RECURSIVE upper(_)
upper(s) == IF s = "" THEN "" ELSE UpperChr(Chr(s, 1)) \o upper(Tail(s))

\* str.strip(): leading and trailing whitespace removed.
RECURSIVE lstrip(_)
lstrip(s) == IF s # "" /\ Chr(s, 1) = " " THEN lstrip(Tail(s)) ELSE s
RECURSIVE rstrip(_)
rstrip(s) ==
    IF s # "" /\ Chr(s, Len(s)) = " " THEN rstrip(SubSeq(s, 1, Len(s) - 1)) ELSE s
strip(s) == rstrip(lstrip(s))

\* s.split("-")[0]: what precedes the first "-", all of s when it has none.
RECURSIVE split_first(_)
split_first(s) ==
    IF s = "" \/ Chr(s, 1) = "-" THEN "" ELSE Chr(s, 1) \o split_first(Tail(s))

\* Python's str <: lexicographic by code point, a proper prefix first.
RECURSIVE StrLess(_, _)
StrLess(a, b) ==
    IF b = "" THEN FALSE
    ELSE IF a = "" THEN TRUE
    ELSE IF Chr(a, 1) = Chr(b, 1) THEN StrLess(Tail(a), Tail(b))
    ELSE Ord(Chr(a, 1)) < Ord(Chr(b, 1))

\* dict.get(key, default)
dict_get(map, key, default) == IF key \in DOMAIN map THEN map[key] ELSE default

TICKER_NAMES ==
    [BTC |-> "Bitcoin", ETH |-> "Ethereum", USDT |-> "Tether", BNB |-> "Binance Coin",
     ADA |-> "Cardano", SOL |-> "Solana", XRP |-> "Ripple", DOT |-> "Polkadot",
     AVAX |-> "Avalanche", MATIC |-> "Polygon", ATOM |-> "Cosmos", DAI |-> "Dai",
     LTC |-> "Litecoin", UNI |-> "Uniswap", ALGO |-> "Algorand", BCH |-> "Bitcoin Cash",
     XLM |-> "Stellar", XMR |-> "Monero", LINK |-> "Chainlink", SUI |-> "Sui",
     TON |-> "Toncoin", TRX |-> "Tron", USDE |-> "Ethena USDe", HBAR |-> "Hedera",
     DOGE |-> "Dogecoin"]

COMMODITY_NAMES ==
    [BZF |-> "Brent Futures", CLF |-> "Crude Oil Futures", NGF |-> "Natural Gas Futures",
     GCF |-> "Gold Futures", SIF |-> "Silver Futures", RBF |-> "Gasoline Futures",
     HOF |-> "Heating Oil Futures"]

\* eps = 1e-9 on the grid of thousandths.
eps == 0

\* ------------------------------------------------------------------ tables
\* A table (DataFrame) is a sequence of rows; every row has the columns
\* Ticker, Date, Close, EMA_20, MACD, RSI_14, ATR, Vol_Ratio.
NumericCols == {"Close", "EMA_20", "MACD", "RSI_14", "ATR", "Vol_Ratio"}

\* The distinct Ticker values of a table.
TickersOf(df) == {df[i].Ticker : i \in 1..Len(df)}

\* A set of strings as a sequence in ascending order.
RECURSIVE SortedKeys(_)
SortedKeys(S) ==
    IF S = {} THEN <<>>
    ELSE LET m == CHOOSE x \in S : \A y \in S \ {x} : StrLess(x, y)
         IN <<m>> \o SortedKeys(S \ {m})

\* The rows of one ticker in ascending Date, rows of equal Date in their
\* original order (the sort on several columns is a stable lexsort).
RECURSIVE ByDateFrom(_, _)
ByDateFrom(rows, d) ==
    IF d > MaxDate THEN <<>>
    ELSE SelectSeq(rows, LAMBDA r : r.Date = d) \o ByDateFrom(rows, d + 1)

RECURSIVE SortedGroups(_, _)
SortedGroups(df, keys) ==
    IF keys = <<>> THEN <<>>
    ELSE ByDateFrom(SelectSeq(df, LAMBDA r : r.Ticker = Head(keys)), 1)
             \o SortedGroups(df, Tail(keys))

\* df.sort_values(["Ticker", "Date"])
sort_values(df) == SortedGroups(df, SortedKeys(TickersOf(df)))

\* GroupBy.last() on one column of one group: the last entry that is not
\* null, NaN when the group has none.
RECURSIVE LastNonNull(_, _)
LastNonNull(group, col) ==
    IF group = <<>> THEN NaN
    ELSE IF ~isna(group[Len(group)][col]) THEN group[Len(group)][col]
    ELSE LastNonNull(SubSeq(group, 1, Len(group) - 1), col)

GroupLast(df, key) ==
    LET group == SelectSeq(df, LAMBDA r : r.Ticker = key)
    IN [Ticker |-> key,
        Date |-> group[Len(group)].Date,
        Close |-> LastNonNull(group, "Close"),
        EMA_20 |-> LastNonNull(group, "EMA_20"),
        MACD |-> LastNonNull(group, "MACD"),
        RSI_14 |-> LastNonNull(group, "RSI_14"),
        ATR |-> LastNonNull(group, "ATR"),
        Vol_Ratio |-> LastNonNull(group, "Vol_Ratio")]

\* df.groupby("Ticker").last().reset_index(): one row per key, keys ascending.
groupby_last(df) ==
    LET keys == SortedKeys(TickersOf(df))
    IN [i \in 1..Len(keys) |-> GroupLast(df, keys[i])]

\* max(abs(close) * 0.01, eps) if pd.isna(atr) or atr == 0 else atr.
\* Python's max(x, eps) returns x when x is NaN.  One percent of a Close is
\* exact on the grid for the Close values used (multiples of 0.1).
atr_val(close, atr) ==
    IF isna(atr) \/ atr.v = 0
    THEN (IF IsNum(close) THEN Num(Max2(Abs(close.v) \div 100, eps)) ELSE NaN)
    ELSE atr

\* The stop-loss and take-profit of a signal.
risk_band(signal, close, av) ==
    IF signal = "Buy" THEN [sl |-> Sub(close, Times(2, av)), tp |-> Add(close, Times(3, av))]
    ELSE IF signal = "Sell"
         THEN [sl |-> Add(close, Times(2, av)), tp |-> Sub(close, Times(3, av))]
    ELSE [sl |-> Sub(close, av), tp |-> Add(close, av)]

\* -------------------------------------------------- crypto: api_compute_signals
last_rows(df) == groupby_last(sort_values(df))

\* The body of the loop over last_rows: one output row.
out_row(r) ==
    LET ticker == strip(r.Ticker)
        close == safe_val(r, "Close", NaN)
        confidence == compute_confidence(r)
        signal == decide_signal(r)
        atr == safe_val(r, "ATR", NaN)
        band == risk_band(signal, close, atr_val(close, atr))
        symbol == upper(split_first(ticker))
    IN [Ticker |-> ticker,
        Coin_Name |-> dict_get(TICKER_NAMES, symbol, symbol),
        Live_Price |-> round2(close),
        Confidence |-> round2(confidence),
        Signal |-> signal,
        SL |-> round2(band.sl),
        TP |-> round2(band.tp)]

out_rows(df) == LET l == last_rows(df) IN [i \in 1..Len(l) |-> out_row(l[i])]

\* ------------------------------------------------ commodities: generate_signals
\* df.dropna(subset=["Ticker", "Close"]), then Ticker stripped and upper-cased.
com_clean(df) ==
    LET kept == SelectSeq(df, LAMBDA r : ~isna(r.Close))
    IN [i \in 1..Len(kept) |-> [kept[i] EXCEPT !.Ticker = upper(strip(kept[i].Ticker))]]

latest(df) == groupby_last(sort_values(com_clean(df)))

\* Mutant of com_out_row: the name is looked up by the base symbol, as the
\* crypto module does.
com_out_row_by_symbol(r, name_map) ==
    LET close == safe_val(r, "Close", NaN)
        atr == safe_val(r, "ATR", NaN)
        signal == com_decide_signal(r)
        band == risk_band(signal, close, atr_val(close, atr))
        symbol == upper(split_first(r.Ticker))
    IN [Ticker |-> r.Ticker,
        Name |-> dict_get(name_map, symbol, symbol),
        Live_Price |-> round2(close),
        Confidence |-> round2(com_compute_confidence(r)),
        Signal |-> signal,
        SL |-> round2(band.sl),
        TP |-> round2(band.tp)]

com_out_row(r, name_map) ==
    LET close == safe_val(r, "Close", NaN)
        atr == safe_val(r, "ATR", NaN)
        signal == com_decide_signal(r)
        band == risk_band(signal, close, atr_val(close, atr))
    IN [Ticker |-> r.Ticker,
        Name |-> dict_get(name_map, r.Ticker, r.Ticker),
        Live_Price |-> round2(close),
        Confidence |-> round2(com_compute_confidence(r)),
        Signal |-> signal,
        SL |-> round2(band.sl),
        TP |-> round2(band.tp)]

generate_signals(df, name_map) ==
    LET l == latest(df) IN [i \in 1..Len(l) |-> com_out_row(l[i], name_map)]

\* ======================================================================
\* State
\* ======================================================================
VARIABLES
    module,      \* which API this process is: "crypto" (app.py) or "commodities"
    row,         \* SpecRow: the row handed to the scorer and the classifier
    rowOut,      \* SpecRow: what they returned for it
    table,       \* SpecEngine: the snapshot table handed to compute-signals
    ran,         \* SpecEngine: whether compute-signals has run on it
    snap,        \* SpecEngine: the selected snapshots (last_rows / latest)
    result,      \* SpecEngine: the result table, one record per output row
    indicators,  \* Spec: the indicators file (PROCESSED_FILE / COM_PROCESSED_FILE)
    signals,     \* Spec: the signals file (SIGNALS_FILE / COM_SIGNALS_FILE)
    response,    \* Spec: the answer to the request just handled
    firstRun,    \* Spec (history): a successful compute-signals run, kept to compare
    lastOK       \* Spec (history): the table of the last successful compute-signals

rowVars == <<row, rowOut>>
engineVars == <<table, ran, snap, result>>
apiVars == <<indicators, signals, response, firstRun, lastOK>>
vars == <<module, row, rowOut, table, ran, snap, result,
          indicators, signals, response, firstRun, lastOK>>

Modules == {"crypto", "commodities"}

\* ======================================================================
\* SpecRow: compute_confidence and decide_signal on one row
\* ======================================================================
\* Field values of a row: missing both ways (no key, NaN), zero, ordinary
\* values on both sides of every threshold, and values far off the scale.
RowCloseVals == {Absent, NaN, Num(0), Num(100 * One), Num(100)}
RowEmaVals == {Absent, NaN, Num(0), Num(95 * One), Num(105 * One)}
RowMacdVals == {Absent, NaN, Num(0), Num(1500), Num(-1500), Num(-100 * One)}
RowRsiVals == {Absent, NaN, Num(0), Num(60 * One), Num(40 * One), Num(80 * One), Num(1000 * One)}
RowVolVals == {Absent, NaN, Num(0), Num(1200)}

RowInputs ==
    { [Ticker |-> "BTC-USD", Date |-> 1, Close |-> c, EMA_20 |-> e, MACD |-> m,
       RSI_14 |-> r, ATR |-> NaN, Vol_Ratio |-> v] :
        c \in RowCloseVals, e \in RowEmaVals, m \in RowMacdVals,
        r \in RowRsiVals, v \in RowVolVals }

NoRowOut == [done |-> FALSE, conf |-> NaN, signal |-> "Hold"]
IdleRow == [Ticker |-> "", Date |-> 1, Close |-> NaN, EMA_20 |-> NaN, MACD |-> NaN,
            RSI_14 |-> NaN, ATR |-> NaN, Vol_Ratio |-> NaN]
\* The variables of the other specifications, at rest.
RowIdle == row = IdleRow /\ rowOut = NoRowOut
EngineIdle == table = <<>> /\ ran = FALSE /\ snap = <<>> /\ result = <<>>

\* A file: whether it exists, and the rows of the table it holds.
NoFile == [exists |-> FALSE, rows |-> <<>>]
FileOf(rows) == [exists |-> TRUE, rows |-> rows]
NoResponse == [call |-> "", code |-> 0, status |-> "", n |-> 0, rows |-> <<>>]
NoRun == [set |-> FALSE, input |-> <<>>, output |-> <<>>, seenOther |-> FALSE]
NoLast == [set |-> FALSE, output |-> <<>>]
ApiIdle ==
    /\ indicators = NoFile
    /\ signals = NoFile
    /\ response = NoResponse
    /\ firstRun = NoRun
    /\ lastOK = NoLast

InitRow ==
    /\ module \in Modules
    /\ row \in RowInputs
    /\ rowOut = NoRowOut
    /\ EngineIdle
    /\ ApiIdle

\* compute_confidence(row) and decide_signal(row) of app.py.
CryptoScoreRow ==
    /\ module = "crypto"
    /\ ~rowOut.done
    /\ rowOut' = [done |-> TRUE, conf |-> compute_confidence(row),
                  signal |-> decide_signal(row)]
    /\ UNCHANGED <<module, row, engineVars, apiVars>>

\* compute_confidence(row) and decide_signal(row) of commodities.py.
CommoditiesScoreRow ==
    /\ module = "commodities"
    /\ ~rowOut.done
    /\ rowOut' = [done |-> TRUE, conf |-> com_compute_confidence(row),
                  signal |-> com_decide_signal(row)]
    /\ UNCHANGED <<module, row, engineVars, apiVars>>

NextRow == CryptoScoreRow \/ CommoditiesScoreRow

SpecRow == InitRow /\ [][NextRow]_vars

\* ======================================================================
\* Claims on one row
\* ======================================================================
\* A field is missing when the row has no such key or holds NaN there.
Missing(r, key) == r[key].k # "num"

\* C1: for every input row, missing fields and extreme values included,
\* compute_confidence returns a number c with 0 <= c <= 1, never NaN.
C1_ConfidenceInUnitInterval ==
    rowOut.done => (IsNum(rowOut.conf) /\ 0 <= rowOut.conf.v /\ rowOut.conf.v <= One)

\* The classification rule on the row's own values.
RuleSignal(r) ==
    IF r.Close.v > r.EMA_20.v /\ r.MACD.v > 0 /\ r.RSI_14.v < 70 * One THEN "Buy"
    ELSE IF r.Close.v < r.EMA_20.v /\ r.MACD.v < 0 /\ r.RSI_14.v > 30 * One THEN "Sell"
    ELSE "Hold"

\* C6: on every row whose Close, EMA_20, MACD and RSI_14 are all present
\* numbers (0 included), decide_signal of either module returns Buy, Sell or
\* Hold exactly as the rule on the row's own values says.
C6_ClassifierFollowsRule ==
    (rowOut.done /\ ~Missing(row, "Close") /\ ~Missing(row, "EMA_20")
                 /\ ~Missing(row, "MACD") /\ ~Missing(row, "RSI_14"))
        => rowOut.signal = RuleSignal(row)

\* A field with its documented default: the default if and only if the field
\* is missing, its own value (0 included) otherwise.
DocumentedVal(r, key, default) == IF Missing(r, key) THEN default ELSE r[key]

\* The confidence formula on MACD, RSI_14 and Vol_Ratio resolved by
\* DocumentedVal, with Close and EMA_20 as the scorer reads them.
DocumentedConfidence(r) ==
    LET close == safe_val(r, "Close", NaN)
        ema20 == safe_val(r, "EMA_20", NaN)
        macd  == DocumentedVal(r, "MACD", Num(0))
        rsi   == DocumentedVal(r, "RSI_14", Num(50 * One))
        vol_ratio == DocumentedVal(r, "Vol_Ratio", Num(One))
        trend_score ==
            IF isna(close) \/ isna(ema20) THEN Num(One \div 2)
            ELSE clamp01(sigmoid(Times(8, Div(Sub(close, ema20), ema20))))
        macd_score == clamp01(sigmoid(Div(Times(2000, macd), FAbs(close))))
        rsi_score == clamp01(RsiScore(rsi))
        vol_score == clamp01(sigmoid(vol_ratio))
    IN clamp01(Weighted(trend_score, macd_score, rsi_score, vol_score))

\* C9: compute_confidence scores MACD, RSI_14 and Vol_Ratio by their defaults
\* (0.0, 50, 1.0) if and only if the field is missing, and by the field's own
\* value, 0 included, when it is present.
C9_DefaultIffMissing ==
    rowOut.done => rowOut.conf = DocumentedConfidence(row)

\* ======================================================================
\* SpecEngine: compute-signals on one snapshot table
\* ======================================================================
\* Tickers as a CSV holds them: plain, with a leading blank, lower-cased.
EngineTickers == {"BTC-USD", " BTC-USD", "gcf"}

\* Indicator values of a row: Close, EMA_20, MACD, RSI_14, ATR, Vol_Ratio.
\*   a Buy row (Close 100 above EMA_20 95, MACD 1.5, RSI 60, ATR 2);
\*   a Sell row whose ATR is 0;
\*   a row without EMA_20 and without ATR;
\*   a row without Close;
\*   a Buy row of a low-priced asset (Close 0.10) without ATR.
Profiles ==
    { <<Num(100 * One), Num(95 * One), Num(1500), Num(60 * One), Num(2 * One), Num(1200)>>,
      <<Num(100 * One), Num(105 * One), Num(-1500), Num(40 * One), Num(0), Num(1200)>>,
      <<Num(100 * One), NaN, Num(One), Num(55 * One), NaN, NaN>>,
      <<NaN, Num(95 * One), Num(1500), Num(60 * One), Num(2 * One), Num(1200)>>,
      <<Num(100), Num(95), Num(1), Num(60 * One), NaN, NaN>> }

EngineRows ==
    { [Ticker |-> t, Date |-> d, Close |-> p[1], EMA_20 |-> p[2], MACD |-> p[3],
       RSI_14 |-> p[4], ATR |-> p[5], Vol_Ratio |-> p[6]] :
        t \in EngineTickers, d \in 1..MaxDate, p \in Profiles }

Tables(Rows, n) == UNION { [1..k -> Rows] : k \in 0..n }

InitEngine ==
    /\ module \in Modules
    /\ table \in Tables(EngineRows, MaxRows)
    /\ ran = FALSE
    /\ snap = <<>>
    /\ result = <<>>
    /\ RowIdle
    /\ ApiIdle

\* api_compute_signals of app.py on the table read from PROCESSED_FILE.
CryptoCompute ==
    /\ module = "crypto"
    /\ ~ran
    /\ ran' = TRUE
    /\ snap' = last_rows(table)
    /\ result' = out_rows(table)
    /\ UNCHANGED <<module, table, rowVars, apiVars>>

\* generate_signals(df, COMMODITY_NAMES) of commodities.py.
CommoditiesCompute ==
    /\ module = "commodities"
    /\ ~ran
    /\ ran' = TRUE
    /\ snap' = latest(table)
    /\ result' = generate_signals(table, COMMODITY_NAMES)
    /\ UNCHANGED <<module, table, rowVars, apiVars>>

NextEngine == CryptoCompute \/ CommoditiesCompute

SpecEngine == InitEngine /\ [][NextEngine]_vars

\* ======================================================================
\* Claims on one table
\* ======================================================================
\* The group key of an input row: its Ticker as read (crypto), its Ticker
\* stripped and upper-cased (commodities).
KeyOf(t) == IF module = "crypto" THEN t ELSE upper(strip(t))

\* The input rows of one key, in their original order.
InputRowsOf(key) == SelectSeq(table, LAMBDA r : KeyOf(r.Ticker) = key)

\* The most recent row of a non-empty sequence of rows: greatest Date, the
\* latest in the original order among rows of equal Date.
MostRecent(rows) ==
    rows[CHOOSE i \in 1..Len(rows) :
            \A j \in 1..Len(rows) :
                rows[j].Date < rows[i].Date \/ (rows[j].Date = rows[i].Date /\ j <= i)]

\* C2: every ticker whose most recent row by Date lacks Close, EMA_20, MACD
\* or RSI_14 gets Signal = Hold, whatever its older rows hold.
C2_LatestMissingIsHold ==
    ran => \A i \in 1..Len(result) :
        LET newest == MostRecent(InputRowsOf(snap[i].Ticker))
        IN (Missing(newest, "Close") \/ Missing(newest, "EMA_20")
              \/ Missing(newest, "MACD") \/ Missing(newest, "RSI_14"))
            => result[i].Signal = "Hold"

\* C3: on every emitted row, with the emitted (rounded) values: Buy implies
\* TP > Live_Price > SL, Sell implies SL > Live_Price > TP, Hold implies
\* TP > Live_Price > SL.
C3_BandOrdering ==
    ran => \A i \in 1..Len(result) :
        LET o == result[i]
        IN IF o.Signal = "Sell"
           THEN Gt(o.SL, o.Live_Price) /\ Gt(o.Live_Price, o.TP)
           ELSE Gt(o.TP, o.Live_Price) /\ Gt(o.Live_Price, o.SL)

\* C4: the result holds exactly one row per distinct ticker of the input: no
\* input ticker is left without a result row, and no two result rows carry
\* the same Ticker value.
C4_OneRowPerTicker ==
    ran =>
        /\ \A j \in 1..Len(table) : \E i \in 1..Len(result) :
               upper(strip(result[i].Ticker)) = upper(strip(table[j].Ticker))
        /\ \A i, k \in 1..Len(result) : result[i].Ticker = result[k].Ticker => i = k

\* C5: the snapshot handed on for a ticker is, field for field, that ticker's
\* single most recent input row.
C5_SnapshotIsNewestRow ==
    ran => \A i \in 1..Len(snap) :
        LET newest == MostRecent(InputRowsOf(snap[i].Ticker))
        IN /\ snap[i].Date = newest.Date
           /\ \A c \in NumericCols : snap[i][c] = newest[c]

\* The display name of a result row: Coin_Name (crypto), Name (commodities).
DisplayName(o) == IF module = "crypto" THEN o.Coin_Name ELSE o.Name
NameMap == IF module = "crypto" THEN TICKER_NAMES ELSE COMMODITY_NAMES

exists_always(file) == TRUE
\* os.path.exists(path)
exists(file) == file.exists
\* pd.read_csv(path) of an indicators file: the table it holds.
read_csv(file) == file.rows
\* Mutant of to_csv: the file is opened for appending (mode="a").
to_csv_append(file, rows) == FileOf(file.rows \o rows)
\* DataFrame.to_csv(path, index=False): the file is created or overwritten.
\* Cells survive the round trip through CSV text unchanged (NaN is written
\* as an empty cell and read back as NaN).
to_csv(file, rows) == FileOf(rows)

\* The float NaN that Series.map leaves in a string column for an unmapped key.
NaNName == "nan"

\* raise HTTPException(404, ...)
NotFound(call) == [call |-> call, code |-> 404, status |-> "", n |-> 0, rows |-> <<>>]
\* An exception no handler catches: 500 Internal Server Error.
ServerError(call) == [call |-> call, code |-> 500, status |-> "", n |-> 0, rows |-> <<>>]
Ok(call, status, n, rows) ==
    [call |-> call, code |-> 200, status |-> status, n |-> n, rows |-> rows]

\* The history kept beside a successful run writing `out` from `input`: the
\* run may become the one kept to compare; once one is kept, note when a
\* later run writes a different table.
Remembered(input, out) ==
    IF firstRun.set
    THEN {[firstRun EXCEPT !.seenOther = @ \/ out # firstRun.output]}
    ELSE {firstRun, [set |-> TRUE, input |-> input, output |-> out, seenOther |-> FALSE]}

\* The rows of the indicators file the outside world can write.
ApiRows ==
    { [Ticker |-> "BTC-USD", Date |-> 1, Close |-> Num(100 * One), EMA_20 |-> Num(95 * One),
       MACD |-> Num(1500), RSI_14 |-> Num(60 * One), ATR |-> Num(2 * One),
       Vol_Ratio |-> Num(1200)],
      [Ticker |-> " gcf", Date |-> 2, Close |-> Num(100 * One), EMA_20 |-> Num(105 * One),
       MACD |-> Num(-1500), RSI_14 |-> Num(40 * One), ATR |-> Num(0),
       Vol_Ratio |-> Num(1200)] }

\* The {ticker} path parameter of a GET.
Queries == {"btc", " gcf", "BTC-USD"}

\* A fresh deployment: the indicators file may or may not have been produced
\* yet, and no signals file has been written (only compute-signals writes it).
Init ==
    /\ module \in Modules
    /\ indicators \in {NoFile} \cup {FileOf(t) : t \in Tables(ApiRows, MaxFileRows)}
    /\ signals = NoFile
    /\ response = NoResponse
    /\ firstRun = NoRun
    /\ lastOK = NoLast
    /\ RowIdle
    /\ EngineIdle

\* The upstream indicator calculation writes or replaces the indicators file.
\* No request is being answered.
UpstreamWrite ==
    /\ \E t \in Tables(ApiRows, MaxFileRows) : indicators' = FileOf(t)
    /\ indicators' # indicators
    /\ response' = NoResponse
    /\ UNCHANGED <<module, signals, firstRun, lastOK, rowVars, engineVars>>

\* The indicators file is removed.
UpstreamRemove ==
    /\ exists(indicators)
    /\ indicators' = NoFile
    /\ response' = NoResponse
    /\ UNCHANGED <<module, signals, firstRun, lastOK, rowVars, engineVars>>

\* POST /compute-signals (app.py)
api_compute_signals ==
    /\ module = "crypto"
    /\ IF ~exists(indicators)
       THEN /\ response' = NotFound("compute-signals")
            /\ UNCHANGED <<signals, firstRun, lastOK>>
       ELSE LET out == out_rows(read_csv(indicators))
            IN /\ signals' = to_csv(signals, out)
               /\ response' = Ok("compute-signals", "success", Len(out), <<>>)
               /\ firstRun' \in Remembered(indicators.rows, out)
               /\ lastOK' = [set |-> TRUE, output |-> out]
    /\ UNCHANGED <<module, indicators, rowVars, engineVars>>

\* POST /commodities/compute-signals (commodities.py)
compute_commodities_signals ==
    /\ module = "commodities"
    /\ IF ~exists(indicators)
       THEN /\ response' = NotFound("compute-signals")
            /\ UNCHANGED <<signals, firstRun, lastOK>>
       ELSE LET out == generate_signals(read_csv(indicators), COMMODITY_NAMES)
            IN /\ signals' = to_csv(signals, out)
               /\ response' = Ok("compute-signals", "success", Len(out), <<>>)
               /\ firstRun' \in Remembered(indicators.rows, out)
               /\ lastOK' = [set |-> TRUE, output |-> out]
    /\ UNCHANGED <<module, indicators, rowVars, engineVars>>

\* The records get_signal returns for the rows it kept: Symbol dropped,
\* Coin_Name mapped again from the symbol, the numeric columns rounded.
signal_record(o) ==
    LET symbol == upper(split_first(o.Ticker))
    IN [Ticker |-> o.Ticker,
        Coin_Name |-> dict_get(TICKER_NAMES, symbol, NaNName),
        Live_Price |-> round2(o.Live_Price),
        Confidence |-> round2(o.Confidence),
        Signal |-> o.Signal,
        SL |-> round2(o.SL),
        TP |-> round2(o.TP)]

\* get_signal(ticker) of app.py.  A signals file written from no rows holds
\* no header, and pd.read_csv raises on it.
get_signal(ticker) ==
    IF ~exists(signals) THEN NotFound("signal")
    ELSE IF signals.rows = <<>> THEN ServerError("signal")
    ELSE LET q == upper(strip(ticker))
             df == SelectSeq(signals.rows, LAMBDA o : upper(split_first(o.Ticker)) = q)
         IN IF df = <<>> THEN NotFound("signal")
            ELSE Ok("signal", "", Len(df), [i \in 1..Len(df) |-> signal_record(df[i])])

\* get_commodity_signal(ticker) of commodities.py.
get_commodity_signal(ticker) ==
    IF ~exists(signals) THEN NotFound("signal")
    ELSE IF signals.rows = <<>> THEN ServerError("signal")
    ELSE LET q == upper(strip(ticker))
             up == [i \in 1..Len(signals.rows) |->
                        [signals.rows[i] EXCEPT !.Ticker = upper(@)]]
             df == SelectSeq(up, LAMBDA o : o.Ticker = q)
         IN IF df = <<>> THEN NotFound("signal") ELSE Ok("signal", "", Len(df), df)

\* GET /signal/{ticker}
CryptoGetSignal ==
    /\ module = "crypto"
    /\ \E q \in Queries : response' = get_signal(q)
    /\ UNCHANGED <<module, indicators, signals, firstRun, lastOK, rowVars, engineVars>>

\* GET /commodities/signal/{ticker}
CommoditiesGetSignal ==
    /\ module = "commodities"
    /\ \E q \in Queries : response' = get_commodity_signal(q)
    /\ UNCHANGED <<module, indicators, signals, firstRun, lastOK, rowVars, engineVars>>

\* POST /calculate-indicators (app.py): a missing file is answered 200 with
\* status "failed".
api_calculate_indicators ==
    /\ module = "crypto"
    /\ response' = IF ~exists(indicators)
                   THEN Ok("calculate-indicators", "failed", 0, <<>>)
                   ELSE Ok("calculate-indicators", "success", Len(read_csv(indicators)), <<>>)
    /\ UNCHANGED <<module, indicators, signals, firstRun, lastOK, rowVars, engineVars>>

\* POST /commodities/calculate-indicators (commodities.py)
calculate_commodities_indicators ==
    /\ module = "commodities"
    /\ response' = IF ~exists(indicators)
                   THEN NotFound("calculate-indicators")
                   ELSE Ok("calculate-indicators", "success", Len(read_csv(indicators)), <<>>)
    /\ UNCHANGED <<module, indicators, signals, firstRun, lastOK, rowVars, engineVars>>

\* A row of the indicators file with its numeric columns rounded to 2 decimals.
rounded_row(r) ==
    [r EXCEPT !.Close = round2(@), !.EMA_20 = round2(@), !.MACD = round2(@),
              !.RSI_14 = round2(@), !.ATR = round2(@), !.Vol_Ratio = round2(@)]

\* get_indicators(ticker) of app.py: the rows of the symbol, with Coin_Name.
get_indicators(ticker) ==
    IF ~exists(indicators) THEN NotFound("indicators")
    ELSE LET q == upper(strip(ticker))
             df == SelectSeq(read_csv(indicators),
                             LAMBDA r : upper(split_first(r.Ticker)) = q)
         IN IF df = <<>> THEN NotFound("indicators")
            ELSE Ok("indicators", "", Len(df),
                    [i \in 1..Len(df) |->
                        [row |-> rounded_row(df[i]),
                         Coin_Name |-> dict_get(TICKER_NAMES,
                                                upper(split_first(df[i].Ticker)), NaNName)]])

\* get_commodity_indicators(ticker) of commodities.py: Ticker upper-cased (not
\* stripped) and compared with the stripped, upper-cased parameter.
get_commodity_indicators(ticker) ==
    IF ~exists(indicators) THEN NotFound("indicators")
    ELSE LET q == upper(strip(ticker))
             rows == read_csv(indicators)
             up == [i \in 1..Len(rows) |-> [rows[i] EXCEPT !.Ticker = upper(@)]]
             df == SelectSeq(up, LAMBDA r : r.Ticker = q)
         IN IF df = <<>> THEN NotFound("indicators")
            ELSE Ok("indicators", "", Len(df), [i \in 1..Len(df) |-> rounded_row(df[i])])

\* GET /indicators/{ticker}
CryptoGetIndicators ==
    /\ module = "crypto"
    /\ \E q \in Queries : response' = get_indicators(q)
    /\ UNCHANGED <<module, indicators, signals, firstRun, lastOK, rowVars, engineVars>>

\* GET /commodities/indicators/{ticker}
CommoditiesGetIndicators ==
    /\ module = "commodities"
    /\ \E q \in Queries : response' = get_commodity_indicators(q)
    /\ UNCHANGED <<module, indicators, signals, firstRun, lastOK, rowVars, engineVars>>

Next ==
    \/ UpstreamWrite
    \/ UpstreamRemove
    \/ api_compute_signals
    \/ compute_commodities_signals
    \/ CryptoGetSignal
    \/ CommoditiesGetSignal
    \/ api_calculate_indicators
    \/ calculate_commodities_indicators
    \/ CryptoGetIndicators
    \/ CommoditiesGetIndicators

Spec == Init /\ [][Next]_vars

\* ======================================================================
\* Claims on the API
\* ======================================================================
ComputeSignalsStep == api_compute_signals \/ compute_commodities_signals

\* C8: compute-signals keeps no state: a run on an indicators file that an
\* earlier successful run has seen writes the very table that run wrote,
\* whatever the signals file held before, and it leaves the indicators file
\* unchanged.
C8_Idempotent ==
    [][ComputeSignalsStep =>
          /\ indicators' = indicators
          /\ (indicators.exists /\ firstRun.set /\ firstRun.input = indicators.rows)
                => (signals'.exists /\ signals'.rows = firstRun.output)]_vars

\* A run on the first run's indicators file, made after another run had put
\* a different table in the signals file, has written the first table again.
C8_Witness ==
    /\ firstRun.set
    /\ firstRun.seenOther
    /\ firstRun.output # <<>>
    /\ response.call = "compute-signals"
    /\ response.code = 200
    /\ indicators.rows = firstRun.input
    /\ signals.rows = firstRun.output

\* The fields of a result row that both modules write.
SameSignal(a, b) ==
    /\ a.Ticker = b.Ticker
    /\ a.Live_Price = b.Live_Price
    /\ a.Confidence = b.Confidence
    /\ a.Signal = b.Signal
    /\ a.SL = b.SL
    /\ a.TP = b.TP

C10_State ==
    /\ signals.exists <=> lastOK.set
    /\ lastOK.set => signals.rows = lastOK.output
    /\ (response.call = "signal" /\ ~lastOK.set) => response.code = 404
    /\ (response.call = "signal" /\ response.code = 200) =>
           \A i \in 1..Len(response.rows) : \E j \in 1..Len(lastOK.output) :
               SameSignal(response.rows[i], lastOK.output[j])

\* C10: a compute-signals request made while the indicators file is absent
\* answers 404 and leaves the signals file as it was; so GET signal answers
\* 404 while no compute-signals has succeeded, and afterwards serves rows of
\* the last successful run.
C10_MissingIndicators ==
    /\ []C10_State
    /\ [][(ComputeSignalsStep /\ ~indicators.exists) =>
             (response'.code = 404 /\ signals' = signals)]_vars

\* compute-signals has answered 404 and the signals file of an earlier run
\* is still there.
C10_Witness ==
    /\ response = NotFound("compute-signals")
    /\ ~indicators.exists
    /\ signals.exists
    /\ signals.rows # <<>>
    /\ signals.rows = lastOK.output

====
